---- MODULE Spec2Model ----
(***************************************************************************)
(* Model of install_Krach2025-poremaps.py: the provisioning script that    *)
(* acquires an OpenMPI toolchain (source build or system fallback),        *)
(* validates its two executables, clones and builds poremaps against it    *)
(* and appends environment lines to /poremaps/.bashrc.                     *)
(*                                                                         *)
(* Strings that the code indexes, joins or rewrites are sequences of       *)
(* tokens (the string is their concatenation); a file is a sequence of     *)
(* lines.  The outcome of every external collaborator (network, archive,   *)
(* build tools, file system) is a field of env, fixed per behaviour.       *)
(***************************************************************************)
EXTENDS Integers, Sequences, FiniteSets, TLC

VARIABLES
    GET_OPENMPI,       \* line 38: the source-build flag
    req_version,       \* the version string handed to run_ompi_install
    POREMAPS_GIT_URL,  \* line 43: the repository URL
    env,               \* outcomes of the external collaborators
    pc,                \* position of the script
    curdir,            \* the process's working directory (os.chdir/os.getcwd)
    ompi_compiler,     \* line 258
    ompi_exec,         \* line 258
    ompi_version,      \* line 258
    exitCode,          \* "running", "0" or "1"
    exitAt,            \* the step at which the process ended
    trace,             \* the external operations of the current run, in order
    built,             \* file system: <ompi_src>/openmpi-<v>/build/bin/* installed
    cloned,            \* file system: <poremaps_src>/poremaps/src exists
    makefile,          \* file system: content of poremaps/src/makefile
    bashrc,            \* file system: content of /poremaps/.bashrc
    bashrc0,           \* content of /poremaps/.bashrc when the current run started
    runs,              \* runs started so far
    completed          \* runs that reached the end of the script

vars == <<GET_OPENMPI, req_version, POREMAPS_GIT_URL, env, pc, curdir,
          ompi_compiler, ompi_exec, ompi_version, exitCode, exitAt, trace,
          built, cloned, makefile, bashrc, bashrc0, runs, completed>>

config == <<GET_OPENMPI, req_version, POREMAPS_GIT_URL, env>>
result == <<ompi_compiler, ompi_exec, ompi_version>>
files  == <<built, cloned, makefile, bashrc>>

----------------------------------------------------------------------------
(* Bounds *)

MaxRuns == 2
MaxLines == 2
MaxLineLen == 2

----------------------------------------------------------------------------
(* Strings and paths *)

Join(a, b) == a \o <<"/">> \o b

cwd == <<"/w">>

poremaps_src == Join(cwd, <<"poremaps_Krach2025">>)

ompi_src == Join(cwd, <<"OpenMPI">>)

SystemCompiler == <<"/usr/bin/mpiCC">>

SystemExec == <<"/usr/bin/mpirun">>

DefaultVersion == <<"5", ".", "0", ".", "9">>

Versions == {DefaultVersion, <<"5", ".", "1", "0", ".", "1">>, <<"5">>}

GoodUrl == <<"https://git.rwth-aachen.de/david.krach/poremaps.git">>

NulUrl == <<"https://git.rwth-aachen.de/", "\\0", "poremaps.git">>

Ev(op, arg, st) == [op |-> op, arg |-> arg, st |-> st]

None == <<>>

----------------------------------------------------------------------------
(* The file system as the checks see it *)

EntryKinds == {"absent", "file_x", "file_nox", "dir_x"}

isfile(kind) == kind \in {"file_x", "file_nox"}

access_X_OK(kind) == kind \in {"file_x", "dir_x"}

Entry(path) ==
    IF path = SystemCompiler THEN env.sysCC
    ELSE IF path = SystemExec THEN env.sysRun
    ELSE IF built THEN "file_x" ELSE "absent"

----------------------------------------------------------------------------
(* run_ompi_install (lines 53-152) *)

\* line 103: characters 0 and 2 of the version string name the release series
ompi_url(v) ==
    <<"https://download.open-mpi.org/release/open-mpi/v", v[1], ".", v[3],
      "/openmpi-">> \o v \o <<".tar.gz">>

\* The release series of a version "X.Y.Z" is "X.Y": all before the second dot.
RECURSIVE SeriesOf(_, _)
SeriesOf(v, dots) ==
    IF v = <<>> THEN <<>>
    ELSE IF Head(v) = "." /\ dots = 1 THEN <<>>
    ELSE <<Head(v)>> \o SeriesOf(Tail(v), IF Head(v) = "." THEN dots + 1 ELSE dots)

\* line 108/112: the server holds openmpi-<v>.tar.gz under its own series only;
\* any other URL answers with a page that is no gzip archive.
Served(v) == <<v[1], ".", v[3]>> = SeriesOf(v, 0)

\* lines 116-117
BuildBin(dir, v, leaf) == Join(dir, <<"openmpi-">> \o v \o <<"/build/bin/", leaf>>)

BuildDir(dir, v) == Join(dir, <<"openmpi-">> \o v \o <<"/build">>)

\* os.system: the command's exit status is the return value
StatusOf(ok) == IF ok THEN "ok" ELSE "fail"

\* lines 129 and 136: os.system's return value is dropped, so a failing
\* configure or make raises nothing
BuildRaises_Checked(ok) == ~ok

BuildRaises(ok) == FALSE

\* lines 105-138, the body of the try statement; exc: an exception left it
ompi_try(dir, v) ==
    LET url == ompi_url(v)
        here == [exc |-> TRUE, compiler |-> None, exec |-> None, curdir |-> dir,
                 built |-> built, events |-> <<>>]
    IN  IF ~env.netOk
        THEN [here EXCEPT !.events = <<Ev("download", url, "raise")>>]
        ELSE IF ~(env.archiveOk /\ Served(v))
        THEN [here EXCEPT !.events = <<Ev("download", url, "ok"),
                                       Ev("extract", url, "raise")>>]
        ELSE [exc |-> BuildRaises(env.buildOk),
              compiler |-> BuildBin(dir, v, "mpiCC"),
              exec |-> BuildBin(dir, v, "mpirun"),
              curdir |-> BuildDir(dir, v),
              built |-> built \/ env.buildOk,
              events |-> <<Ev("download", url, "ok"),
                           Ev("extract", url, "ok"),
                           Ev("chdir", BuildDir(dir, v), "ok"),
                           Ev("configure", BuildDir(dir, v), StatusOf(env.buildOk)),
                           Ev("make_ompi", BuildDir(dir, v), StatusOf(env.buildOk))>>]

\* lines 140-144, the except clause
ompi_except(t, v) ==
    [raised |-> FALSE, compiler |-> SystemCompiler, exec |-> SystemExec,
     version |-> v, curdir |-> t.curdir, built |-> t.built, events |-> t.events]

\* the chdir of line 100 hoisted above the test of the flag
ompi_system_ChdirFirst(v) ==
    [raised |-> FALSE, compiler |-> SystemCompiler, exec |-> SystemExec,
     version |-> v, curdir |-> ompi_src, built |-> built,
     events |-> <<Ev("chdir", ompi_src, "ok")>>]

\* lines 145-149, the else branch: nothing but the two assignments
ompi_system(v) ==
    [raised |-> FALSE, compiler |-> SystemCompiler, exec |-> SystemExec,
     version |-> v, curdir |-> curdir, built |-> built, events |-> <<>>]

\* an exception that leaves the function (raised before the try statement)
ompi_raise(dir, events) ==
    [raised |-> TRUE, compiler |-> None, exec |-> None, version |-> None,
     curdir |-> dir, built |-> built, events |-> events]

\* lines 98-152
run_ompi_install(_GET_OMPI, _ompi_src, v) ==
    IF _GET_OMPI
    THEN IF env.srcDir = "noenter"
         THEN ompi_raise(curdir, <<Ev("chdir", _ompi_src, "raise")>>)
         ELSE IF Len(v) < 3
         THEN ompi_raise(_ompi_src, <<Ev("chdir", _ompi_src, "ok"),
                                      Ev("ompi_url", v, "raise")>>)
         ELSE LET t == ompi_try(_ompi_src, v)
              IN  IF t.exc
                  THEN [ompi_except(t, v) EXCEPT
                          !.events = <<Ev("chdir", _ompi_src, "ok")>> \o t.events]
                  ELSE [raised |-> FALSE, compiler |-> t.compiler, exec |-> t.exec,
                        version |-> v, curdir |-> t.curdir, built |-> t.built,
                        events |-> <<Ev("chdir", _ompi_src, "ok")>> \o t.events]
    ELSE ompi_system(v)

----------------------------------------------------------------------------
(* _ompi_sanity (lines 155-185) *)

\* the second check (lines 181-185) left out
_ompi_sanity_NoExecCheck(kind) == IF ~isfile(kind) THEN "exit_missing" ELSE "ok"

\* "ok": returns; otherwise the sys.exit taken
_ompi_sanity(kind) ==
    IF ~isfile(kind) THEN "exit_missing"
    ELSE IF ~access_X_OK(kind) THEN "exit_noexec"
    ELSE "ok"

----------------------------------------------------------------------------
(* sed -i 's|CLINKER=.*|CLINKER=<compiler>|' makefile (line 251) *)

\* Tokens of a makefile line.  "CLINKER=" occurs in a line's text exactly where
\* the token "CLINKER=" stands: "CLINKER " is the name followed by a blank and
\* "x" is any other text.
Tokens == {"CLINKER=", "CLINKER ", "x"}

RECURSIVE FirstMatch(_, _)
FirstMatch(line, i) ==
    IF i > Len(line) THEN 0
    ELSE IF line[i] = "CLINKER=" THEN i
    ELSE FirstMatch(line, i + 1)

\* s|.*CLINKER=.*|CLINKER=<compiler>|: the whole line replaced
SedLine_WholeLine(line, compiler) ==
    IF FirstMatch(line, 1) = 0 THEN line ELSE <<"CLINKER=">> \o compiler

\* s|CLINKER=.*|CLINKER=<compiler>| on one line: the leftmost match runs to the
\* end of the line; what stands before it is kept
SedLine(line, compiler) ==
    LET k == FirstMatch(line, 1)
    IN  IF k = 0 THEN line
        ELSE SubSeq(line, 1, k - 1) \o <<"CLINKER=">> \o compiler

SedSubst(file, compiler) == [i \in 1..Len(file) |-> SedLine(file[i], compiler)]

\* the makefile the repository ships
RepoMakefile == << <<"x">>, <<"CLINKER=", "x">> >>

----------------------------------------------------------------------------
(* The lines appended to /poremaps/.bashrc (lines 265, 271, 273) *)

ActivateLine == <<"source /poremaps/venv/poremaps/bin/activate">>

PathLine(v) ==
    <<"export PATH=">> \o ompi_src \o <<"/openmpi-">> \o v \o <<"/build/bin:$PATH">>

LdLine(v) ==
    <<"export LD_LIBRARY_PATH=">> \o ompi_src \o <<"/openmpi-">> \o v
        \o <<"/build/lib:$LD_LIBRARY_PATH">>

\* echo '<line>' > /poremaps/.bashrc: the file overwritten
AppendTo_Truncate(file, line) == IF env.bashrcWritable THEN <<line>> ELSE file

\* echo '<line>' >> /poremaps/.bashrc: the file with the line added at its end,
\* or the file as it was when the redirection fails
AppendTo(file, line) == IF env.bashrcWritable THEN Append(file, line) ELSE file

\* line 269 without its condition
WantOmpiPaths_Unconditional == TRUE

\* line 269 testing the flag alone
WantOmpiPaths_FlagOnly == GET_OPENMPI

\* line 269
WantOmpiPaths == GET_OPENMPI /\ ompi_exec # SystemExec

----------------------------------------------------------------------------
(* The initial states: one installation host, before the first run *)

Env ==
    [sysCC : EntryKinds, sysRun : EntryKinds,
     srcDir : {"ok", "nocreate", "noenter"},
     netOk : BOOLEAN, archiveOk : BOOLEAN, buildOk : BOOLEAN,
     cloneOk : BOOLEAN, makeOk : BOOLEAN, bashrcWritable : BOOLEAN,
     repoMakefile : {RepoMakefile}]

InitialBashrc == << <<"# ~/.bashrc">> >>

\* the state of a host on which the script is started for the first time
FirstStart ==
    /\ pc = "setup"
    /\ curdir = cwd
    /\ ompi_compiler = None
    /\ ompi_exec = None
    /\ ompi_version = None
    /\ exitCode = "running"
    /\ exitAt = "none"
    /\ trace = <<>>
    /\ built = FALSE
    /\ cloned = FALSE
    /\ makefile = <<>>
    /\ bashrc = InitialBashrc
    /\ bashrc0 = InitialBashrc
    /\ runs = 1
    /\ completed = 0

Init ==
    /\ GET_OPENMPI \in BOOLEAN
    /\ req_version \in Versions
    /\ POREMAPS_GIT_URL \in {GoodUrl, NulUrl}
    /\ env \in Env
    /\ FirstStart

----------------------------------------------------------------------------
(* The script, statement by statement *)

\* the process ends: sys.exit(<message>) and an uncaught exception give status 1
Exit(code, at) ==
    /\ pc' = "exited"
    /\ exitCode' = code
    /\ exitAt' = at

Goto(label) ==
    /\ pc' = label
    /\ UNCHANGED <<exitCode, exitAt>>

\* lines 44-50: os.makedirs of the two working directories
Setup ==
    /\ pc = "setup"
    /\ IF env.srcDir = "nocreate"
       THEN /\ trace' = Append(trace, Ev("makedirs", poremaps_src, "raise"))
            /\ Exit("1", "makedirs")
       ELSE /\ trace' = trace \o <<Ev("makedirs", poremaps_src, "ok"),
                                   Ev("makedirs", ompi_src, "ok")>>
            /\ Goto("ompi")
    /\ UNCHANGED <<config, curdir, result, files, bashrc0, runs, completed>>

\* lines 258-259: the call of run_ompi_install and the assignment of its result
RunOmpiInstall ==
    /\ pc = "ompi"
    /\ LET r == run_ompi_install(GET_OPENMPI, ompi_src, req_version)
       IN  /\ trace' = trace \o r.events
           /\ curdir' = r.curdir
           /\ built' = r.built
           /\ IF r.raised
              THEN /\ Exit("1", "run_ompi_install")
                   /\ UNCHANGED result
              ELSE /\ ompi_compiler' = r.compiler
                   /\ ompi_exec' = r.exec
                   /\ ompi_version' = r.version
                   /\ Goto("sanity_c")
    /\ UNCHANGED <<config, cloned, makefile, bashrc, bashrc0, runs, completed>>

\* a check whose failure is reported but does not end the process
Sanity_NoExit(path, next) ==
    /\ trace' = Append(trace, Ev("sanity", path, _ompi_sanity(Entry(path))))
    /\ Goto(next)
    /\ UNCHANGED <<config, curdir, result, files, bashrc0, runs, completed>>

\* one call of _ompi_sanity from run_pormaps_install
Sanity(path, next) ==
    LET r == _ompi_sanity(Entry(path))
    IN  /\ trace' = Append(trace, Ev("sanity", path, r))
        /\ IF r = "ok" THEN Goto(next) ELSE Exit("1", "sanity")
        /\ UNCHANGED <<config, curdir, result, files, bashrc0, runs, completed>>

\* line 235
SanityCompiler ==
    /\ pc = "sanity_c"
    /\ Sanity(ompi_compiler, "sanity_e")

\* line 236
SanityExec ==
    /\ pc = "sanity_e"
    /\ Sanity(ompi_exec, "chdir_src")

\* line 239: os.chdir(_poremaps_src)
ChdirPoremapsSrc ==
    /\ pc = "chdir_src"
    /\ IF env.srcDir = "noenter"
       THEN /\ trace' = Append(trace, Ev("chdir", poremaps_src, "raise"))
            /\ UNCHANGED curdir
            /\ Exit("1", "chdir")
       ELSE /\ trace' = Append(trace, Ev("chdir", poremaps_src, "ok"))
            /\ curdir' = poremaps_src
            /\ Goto("clone")
    /\ UNCHANGED <<config, result, files, bashrc0, runs, completed>>

\* os.system raises only when it cannot run the command at all: a NUL character
\* in the command string (ValueError)
SystemRaises(command) == \E i \in 1..Len(command) : command[i] = "\\0"

\* the clone with its exit status checked: a failed clone ends the process
GitClone_StatusChecked ==
    /\ pc = "clone"
    /\ IF SystemRaises(POREMAPS_GIT_URL)
       THEN /\ trace' = Append(trace, Ev("clone", POREMAPS_GIT_URL, "raise"))
            /\ UNCHANGED <<cloned, makefile>>
            /\ Exit("1", "clone")
       ELSE IF env.cloneOk /\ ~cloned
       THEN /\ trace' = Append(trace, Ev("clone", POREMAPS_GIT_URL, "ok"))
            /\ cloned' = TRUE
            /\ makefile' = env.repoMakefile
            /\ Goto("chdir_repo")
       ELSE /\ trace' = Append(trace, Ev("clone", POREMAPS_GIT_URL, "fail"))
            /\ UNCHANGED <<cloned, makefile>>
            /\ Exit("1", "clone")
    /\ UNCHANGED <<config, curdir, result, built, bashrc, bashrc0, runs, completed>>

\* lines 241-245: git clone inside try/except
GitClone ==
    /\ pc = "clone"
    /\ IF SystemRaises(POREMAPS_GIT_URL)
       THEN /\ trace' = Append(trace, Ev("clone", POREMAPS_GIT_URL, "raise"))
            /\ UNCHANGED <<cloned, makefile>>
            /\ Exit("1", "clone")
       ELSE IF env.cloneOk /\ ~cloned
       THEN /\ trace' = Append(trace, Ev("clone", POREMAPS_GIT_URL, "ok"))
            /\ cloned' = TRUE
            /\ makefile' = env.repoMakefile
            /\ Goto("chdir_repo")
       ELSE /\ trace' = Append(trace, Ev("clone", POREMAPS_GIT_URL, "fail"))
            /\ UNCHANGED <<cloned, makefile>>
            /\ Goto("chdir_repo")
    /\ UNCHANGED <<config, curdir, result, built, bashrc, bashrc0, runs, completed>>

\* line 248: os.chdir('poremaps/src')
ChdirRepoSrc ==
    /\ pc = "chdir_repo"
    /\ IF cloned
       THEN /\ trace' = Append(trace, Ev("chdir", Join(curdir, <<"poremaps/src">>), "ok"))
            /\ curdir' = Join(curdir, <<"poremaps/src">>)
            /\ Goto("sed")
       ELSE /\ trace' = Append(trace, Ev("chdir", Join(curdir, <<"poremaps/src">>), "raise"))
            /\ UNCHANGED curdir
            /\ Exit("1", "chdir")
    /\ UNCHANGED <<config, result, files, bashrc0, runs, completed>>

\* line 251
SedMakefile ==
    /\ pc = "sed"
    /\ makefile' = SedSubst(makefile, ompi_compiler)
    /\ trace' = Append(trace, Ev("sed", ompi_compiler, "ok"))
    /\ Goto("make")
    /\ UNCHANGED <<config, curdir, result, built, cloned, bashrc, bashrc0, runs,
                   completed>>

\* line 254
MakePoremaps ==
    /\ pc = "make"
    /\ trace' = Append(trace, Ev("make", ompi_compiler, StatusOf(env.makeOk)))
    /\ Goto("append_act")
    /\ UNCHANGED <<config, curdir, result, files, bashrc0, runs, completed>>

\* line 265
AppendActivate ==
    /\ pc = "append_act"
    /\ bashrc' = AppendTo(bashrc, ActivateLine)
    /\ trace' = Append(trace, Ev("append", ActivateLine, StatusOf(env.bashrcWritable)))
    /\ Goto("append_ompi")
    /\ UNCHANGED <<config, curdir, result, built, cloned, makefile, bashrc0, runs,
                   completed>>

\* lines 269-273, and the end of the script
AppendOmpiPaths ==
    /\ pc = "append_ompi"
    /\ IF WantOmpiPaths
       THEN /\ bashrc' = AppendTo(AppendTo(bashrc, PathLine(ompi_version)),
                                  LdLine(ompi_version))
            /\ trace' = trace \o
                 <<Ev("append", PathLine(ompi_version), StatusOf(env.bashrcWritable)),
                   Ev("append", LdLine(ompi_version), StatusOf(env.bashrcWritable))>>
       ELSE UNCHANGED <<bashrc, trace>>
    /\ completed' = completed + 1
    /\ Exit("0", "end")
    /\ UNCHANGED <<config, curdir, result, built, cloned, makefile, bashrc0, runs>>

\* the script is started again on the same host
StartRun ==
    /\ pc = "exited"
    /\ runs < MaxRuns
    /\ runs' = runs + 1
    /\ pc' = "setup"
    /\ curdir' = cwd
    /\ ompi_compiler' = None
    /\ ompi_exec' = None
    /\ ompi_version' = None
    /\ exitCode' = "running"
    /\ exitAt' = "none"
    /\ trace' = <<>>
    /\ bashrc0' = bashrc
    /\ UNCHANGED <<config, files, completed>>

Next ==
    \/ Setup
    \/ RunOmpiInstall
    \/ SanityCompiler
    \/ SanityExec
    \/ ChdirPoremapsSrc
    \/ GitClone
    \/ ChdirRepoSrc
    \/ SedMakefile
    \/ MakePoremaps
    \/ AppendActivate
    \/ AppendOmpiPaths
    \/ StartRun

Spec == Init /\ [][Next]_vars

----------------------------------------------------------------------------
(* The substitution over every makefile: one run on a host where every
   collaborator succeeds and the repository ships an arbitrary makefile *)

Lines == UNION {[1..n -> Tokens] : n \in 0..MaxLineLen}

Makefiles == UNION {[1..n -> Lines] : n \in 0..MaxLines}

EnvSed ==
    [sysCC : {"file_x"}, sysRun : {"file_x"}, srcDir : {"ok"},
     netOk : {TRUE}, archiveOk : {TRUE}, buildOk : {TRUE},
     cloneOk : {TRUE}, makeOk : {TRUE}, bashrcWritable : {TRUE},
     repoMakefile : Makefiles]

InitSed ==
    /\ GET_OPENMPI \in BOOLEAN
    /\ req_version = DefaultVersion
    /\ POREMAPS_GIT_URL = GoodUrl
    /\ env \in EnvSed
    /\ FirstStart

NextSed ==
    \/ Setup
    \/ RunOmpiInstall
    \/ SanityCompiler
    \/ SanityExec
    \/ ChdirPoremapsSrc
    \/ GitClone
    \/ ChdirRepoSrc
    \/ SedMakefile
    \/ MakePoremaps
    \/ AppendActivate
    \/ AppendOmpiPaths

SpecSed == InitSed /\ [][NextSed]_vars

----------------------------------------------------------------------------
(* Reading the trace of the current run *)

Events(ops) == {i \in DOMAIN trace : trace[i].op \in ops}

IsAppend(e) == e.op = "append"

LandedAppend(e) == e.op = "append" /\ e.st = "ok"

LinesOf(events) == [i \in 1..Len(events) |-> events[i].arg]

\* the lines the run's append commands were given, in order
Appended == LinesOf(SelectSeq(trace, IsAppend))

\* those of them whose redirection succeeded
Landed == LinesOf(SelectSeq(trace, LandedAppend))

LastEvent == trace[Len(trace)]

IsPrefix(s, t) == Len(s) <= Len(t) /\ SubSeq(t, 1, Len(s)) = s

Copies(line, file) == Cardinality({i \in DOMAIN file : file[i] = line})

Downstream == {"clone", "sed", "make", "append"}

ComputedCompiler == BuildBin(ompi_src, req_version, "mpiCC")

ComputedExec == BuildBin(ompi_src, req_version, "mpirun")

----------------------------------------------------------------------------
(* C1 *)

\* an acquisition step of the source build raised: the URL derivation, the
\* download or the extraction
AcquisitionFailed ==
    \E i \in Events({"ompi_url", "download", "extract"}) : trace[i].st = "raise"

\* C1: whenever an acquisition step (URL derivation from the version string,
\* download, extraction) fails while a source build is requested,
\* run_ompi_install does not raise and returns the fixed system paths
\* /usr/bin/mpiCC and /usr/bin/mpirun.
C1_FallbackOnEveryAcquisitionFailure ==
    (GET_OPENMPI /\ AcquisitionFailed) =>
        /\ exitAt # "run_ompi_install"
        /\ ompi_compiler = SystemCompiler
        /\ ompi_exec = SystemExec

----------------------------------------------------------------------------
(* C2 *)

\* the path names some entry of the file system, of whatever kind
exists(kind) == kind # "absent"

SanityEnds(i) ==
    /\ trace[i].st # "ok"
    /\ i = Len(trace)
    /\ pc = "exited"
    /\ exitCode = "1"

\* C2 as stated: _ompi_sanity terminates the process (non-zero) for a path that
\* does not exist, terminates for one that exists but is not executable, and
\* returns normally for every path that exists and is executable, whatever kind
\* of entry it is.
C2_ExistsAndExecutableReturns ==
    \A i \in Events({"sanity"}) :
        LET kind == Entry(trace[i].arg)
        IN  /\ ~exists(kind) => SanityEnds(i)
            /\ (exists(kind) /\ ~access_X_OK(kind)) => SanityEnds(i)
            /\ (exists(kind) /\ access_X_OK(kind)) => trace[i].st = "ok"

\* C2 amended: _ompi_sanity terminates the process (non-zero, "does not exist")
\* for every path that is not a regular file, be it absent or a directory;
\* terminates ("is not executable") for a regular file without execute
\* permission; and returns normally exactly for executable regular files.
C2_RegularFileAndExecutableReturns ==
    \A i \in Events({"sanity"}) :
        LET kind == Entry(trace[i].arg)
        IN  /\ ~isfile(kind) => (SanityEnds(i) /\ trace[i].st = "exit_missing")
            /\ (isfile(kind) /\ ~access_X_OK(kind)) =>
                   (SanityEnds(i) /\ trace[i].st = "exit_noexec")
            /\ (isfile(kind) /\ access_X_OK(kind)) =>
                   (trace[i].st = "ok" /\ (i = Len(trace) => pc # "exited"))

\* the launcher path is an executable directory and validation ended the run
C2_Witness ==
    /\ pc = "exited"
    /\ exitAt = "sanity"
    /\ LastEvent = Ev("sanity", ompi_exec, "exit_missing")
    /\ Entry(ompi_exec) = "dir_x"

----------------------------------------------------------------------------
(* C3 (under SpecSed) *)

BeginsWithClinker(line) == line # <<>> /\ line[1] \in {"CLINKER=", "CLINKER "}

HasMatch(line) == \E k \in DOMAIN line : line[k] = "CLINKER="

Leftmost(line) ==
    CHOOSE k \in DOMAIN line :
        line[k] = "CLINKER=" /\ \A j \in 1..(k - 1) : line[j] # "CLINKER="

SedRan == Events({"sed"}) # {}

\* C3 as stated: the substitution replaces exactly the lines that begin with
\* CLINKER, each becoming CLINKER=<compilerPath> as a whole, and leaves every
\* other line identical; without such a line the file is unchanged.
C3_ExactlyLinesBeginningWithClinker ==
    SedRan =>
        /\ Len(makefile) = Len(env.repoMakefile)
        /\ \A i \in DOMAIN makefile :
              makefile[i] = IF BeginsWithClinker(env.repoMakefile[i])
                            THEN <<"CLINKER=">> \o ompi_compiler
                            ELSE env.repoMakefile[i]

\* C3 amended: the substitution rewrites every line that contains the text
\* CLINKER=, wherever in the line it stands: the line from its first CLINKER=
\* to its end becomes CLINKER=<compilerPath> and what precedes it is kept; every
\* line without CLINKER= is left identical, so a file with no such line is
\* unchanged.
C3_EveryLineContainingClinkerEq ==
    SedRan =>
        /\ Len(makefile) = Len(env.repoMakefile)
        /\ \A i \in DOMAIN makefile :
              LET old == env.repoMakefile[i]
              IN  makefile[i] = IF HasMatch(old)
                                THEN SubSeq(old, 1, Leftmost(old) - 1)
                                         \o <<"CLINKER=">> \o ompi_compiler
                                ELSE old

\* a line with text before CLINKER= was rewritten behind that text, next to a
\* line that begins with CLINKER and was left alone
C3_Witness ==
    /\ SedRan
    /\ Len(makefile) = 2
    /\ env.repoMakefile[1] = <<"x", "CLINKER=">>
    /\ makefile[1] = <<"x", "CLINKER=">> \o ompi_compiler
    /\ env.repoMakefile[2] = <<"CLINKER ", "x">>
    /\ makefile[2] = <<"CLINKER ", "x">>

----------------------------------------------------------------------------
(* C4 *)

C4_ZeroDespiteFailures ==
    /\ pc = "exited"
    /\ exitCode = "0"
    /\ \E i \in Events({"make"}) : trace[i].st = "fail"
    /\ \E i \in Events({"append"}) : trace[i].st = "fail"

----------------------------------------------------------------------------
(* C5 *)

\* the file holds what it held when the run started, then the lines of the
\* run's appends whose redirection succeeded
FileAfterRun ==
    /\ bashrc = bashrc0 \o Landed
    /\ Landed = IF env.bashrcWritable THEN Appended ELSE <<>>

\* C5: with the source build not requested, every run that goes through the
\* full sequence appends exactly one line, the activation line, and has run the
\* validation, the clone, the substitution and the make with /usr/bin/mpiCC and
\* /usr/bin/mpirun.
C5_SystemEndToEnd ==
    (~GET_OPENMPI /\ exitAt = "end") =>
        /\ Appended = <<ActivateLine>>
        /\ FileAfterRun
        /\ ompi_compiler = SystemCompiler
        /\ ompi_exec = SystemExec
        /\ \E i, j \in Events({"sanity"}) :
              /\ trace[i] = Ev("sanity", SystemCompiler, "ok")
              /\ trace[j] = Ev("sanity", SystemExec, "ok")
        /\ \E i \in Events({"clone"}) : trace[i].arg = POREMAPS_GIT_URL
        /\ \E i \in Events({"sed"}) : trace[i].arg = SystemCompiler
        /\ \E i \in Events({"make"}) : trace[i].arg = SystemCompiler

C5_Witness ==
    /\ ~GET_OPENMPI
    /\ exitAt = "end"
    /\ bashrc = Append(bashrc0, ActivateLine)
    /\ \E i \in Events({"clone"}) : trace[i].st = "ok"

----------------------------------------------------------------------------
(* C6 *)

\* C6: with _GET_OMPI false, run_ompi_install returns /usr/bin/mpiCC,
\* /usr/bin/mpirun and the version string it was given, and does nothing else:
\* no directory change, no download, no extraction, no build command.
C6_SystemPathsNoEffects ==
    (~GET_OPENMPI /\ pc = "sanity_c") =>
        /\ ompi_compiler = SystemCompiler
        /\ ompi_exec = SystemExec
        /\ ompi_version = req_version
        /\ curdir = cwd
        /\ ~built
        /\ bashrc = bashrc0
        /\ Events({"chdir", "ompi_url", "download", "extract", "configure",
                   "make_ompi"}) = {}

C6_Witness ==
    /\ ~GET_OPENMPI
    /\ pc = "sanity_c"
    /\ req_version = <<"5">>
    /\ ompi_version = <<"5">>

----------------------------------------------------------------------------
(* C7 *)

\* C7: registration appends the activation line always and first, and the PATH
\* and LD_LIBRARY_PATH lines, in that order, if and only if the source build
\* was requested and the launcher is not /usr/bin/mpirun; nothing else in the
\* run appends.
C7_Registration ==
    /\ pc \notin {"append_ompi", "exited"} => Appended = <<>>
    /\ pc = "append_ompi" => Appended = <<ActivateLine>>
    /\ exitAt = "end" =>
          /\ Appended =
                IF GET_OPENMPI /\ ompi_exec # SystemExec
                THEN <<ActivateLine, PathLine(req_version), LdLine(req_version)>>
                ELSE <<ActivateLine>>
          /\ FileAfterRun

\* a source build: all three lines are in the file
C7_Witness ==
    /\ exitAt = "end"
    /\ GET_OPENMPI
    /\ ompi_exec = ComputedExec
    /\ bashrc = bashrc0 \o <<ActivateLine, PathLine(req_version), LdLine(req_version)>>

\* a source build that fell back: the activation line alone
C7_FallbackCase ==
    /\ exitAt = "end"
    /\ GET_OPENMPI
    /\ ompi_exec = SystemExec
    /\ bashrc = bashrc0 \o <<ActivateLine>>

----------------------------------------------------------------------------
(* C8 *)

\* C8: no clone, substitution, make or append happens in a run before the
\* compiler path and then the launcher path have passed _ompi_sanity; a run
\* ended by a failed check has run none of them and has left the startup file
\* and the makefile as they were.
C8_ValidatedBeforeDownstream ==
    /\ \A i \in Events(Downstream) :
          \E j, k \in Events({"sanity"}) :
              /\ j < k
              /\ k < i
              /\ trace[j] = Ev("sanity", ompi_compiler, "ok")
              /\ trace[k] = Ev("sanity", ompi_exec, "ok")
    /\ exitAt = "sanity" =>
          /\ Events(Downstream) = {}
          /\ exitCode = "1"
          /\ bashrc = bashrc0

\* the compiler passed, the launcher did not, and the run ended there
C8_Witness ==
    /\ exitAt = "sanity"
    /\ Len(trace) >= 2
    /\ trace[Len(trace) - 1] = Ev("sanity", ompi_compiler, "ok")
    /\ LastEvent.op = "sanity"
    /\ LastEvent.arg = ompi_exec
    /\ LastEvent.st # "ok"

----------------------------------------------------------------------------
(* C9 *)

BuildFailed == \E i \in Events({"configure", "make_ompi"}) : trace[i].st = "fail"

----------------------------------------------------------------------------
(* C10 *)

\* C10: the startup file only grows at its end: what it held before the first
\* run and what it held when the current run started are prefixes of what it
\* holds now; and every completed run adds the activation line again, so after
\* n completed runs it holds n copies (none when the redirection fails).
C10_PureAppends ==
    /\ IsPrefix(InitialBashrc, bashrc0)
    /\ IsPrefix(bashrc0, bashrc)
    /\ pc = "exited" =>
          Copies(ActivateLine, bashrc) = IF env.bashrcWritable THEN completed ELSE 0

\* two completed runs, two copies
C10_Witness ==
    /\ pc = "exited"
    /\ completed = 2
    /\ Copies(ActivateLine, bashrc) = 2
    /\ bashrc0 # InitialBashrc

====
